---- MODULE Spec2Model ----
(***************************************************************************)
(* GeoDora (src/app.py): the numeric extractor and formatters, the         *)
(* aggregation helpers, the statistics view, the quiz generator and the    *)
(* per-visitor recently-viewed list, as state machines.                    *)
(*                                                                         *)
(* Text is a sequence of one-character strings.  A float is a fixed-point  *)
(* integer counting units of 1/Scale; float('inf') is the value Inf.       *)
(***************************************************************************)
EXTENDS Integers, Sequences, FiniteSets, TLC

VARIABLES db, session, hist, arg, req, resp

vars == <<db, session, hist, arg, req, resp>>

(***************************************************************************)
(* Bounds of the model.                                                    *)
(***************************************************************************)
\* longest text drawn as an input of the extractor and the formatters
MaxLen == 4

\* characters the bounded texts are written with: digits, the thousands
\* separator, the decimal point and the letters of the unit "km"
Alphabet == {"0", "1", ",", ".", "k", "m"}

\* the superscript-two character of the unit suffix, as one character
Sup2 == "^2"

(***************************************************************************)
(* Text and float primitives of Python that the code relies on.            *)
(***************************************************************************)
Pow10(n) == IF n = 0 THEN 1 ELSE IF n = 1 THEN 10 ELSE IF n = 2 THEN 100
            ELSE IF n = 3 THEN 1000 ELSE IF n = 4 THEN 10000 ELSE 100000

\* a text of MaxLen characters holds at most MaxLen - 1 fractional digits
FracDigits == MaxLen - 1
Scale == Pow10(FracDigits)

\* float('inf'): larger than every magnitude of the model
Inf == 2000000000

Digits == {"0", "1", "2", "3", "4", "5", "6", "7", "8", "9"}

DigitChars == <<"0", "1", "2", "3", "4", "5", "6", "7", "8", "9">>

DigitVal(c) == CHOOSE d \in 0..9 : DigitChars[d + 1] = c

\* int(text) of a run of digits (0 for the empty run)
RECURSIVE NatOf(_)
NatOf(t) == IF t = <<>> THEN 0
            ELSE NatOf(SubSeq(t, 1, Len(t) - 1)) * 10 + DigitVal(t[Len(t)])

\* str(n) of a natural number
RECURSIVE Plain(_)
Plain(n) == IF n < 10 THEN <<DigitChars[n + 1]>>
            ELSE Plain(n \div 10) \o <<DigitChars[(n % 10) + 1]>>

\* f"{n:,}" of a natural number: groups of three digits, comma separated
RECURSIVE Grouped(_)
Grouped(n) ==
    IF n < 1000 THEN Plain(n)
    ELSE Grouped(n \div 1000) \o <<",">>
         \o <<DigitChars[((n \div 100) % 10) + 1],
              DigitChars[((n \div 10) % 10) + 1],
              DigitChars[(n % 10) + 1]>>

\* round-half-even of v / unit, the rounding of the "f" presentation type
RoundHalfEven(v, unit) ==
    LET q == v \div unit
        r == v % unit
    IN  IF 2 * r > unit THEN q + 1
        ELSE IF 2 * r < unit THEN q
        ELSE IF q % 2 = 0 THEN q ELSE q + 1

\* f"{x:,.0f}"
Fmt0f(v) == Grouped(RoundHalfEven(v, Scale))

\* f"{x:,.1f}"
Fmt1f(v) ==
    LET t == RoundHalfEven(v, Scale \div 10)
    IN  Grouped(t \div 10) \o <<".", DigitChars[(t % 10) + 1]>>

\* x.is_integer()
is_integer(v) == v % Scale = 0

\* the position of the first "." of a text, Len + 1 when it has none
RECURSIVE DotAt(_, _)
DotAt(t, i) == IF i > Len(t) THEN i
               ELSE IF t[i] = "." THEN i ELSE DotAt(t, i + 1)

\* whether float(t) accepts a text made of digits and points only:
\* at most one point and at least one digit
FloatAccepts(t) ==
    /\ \E i \in 1..Len(t) : t[i] \in Digits
    /\ Cardinality({i \in 1..Len(t) : t[i] = "."}) <= 1

\* float(t) of such a text
FloatOf(t) ==
    LET p    == DotAt(t, 1)
        whole == SubSeq(t, 1, p - 1)
        frac  == SubSeq(t, p + 1, Len(t))
    IN  NatOf(whole) * Scale + NatOf(frac) * Pow10(FracDigits - Len(frac))

\* the last index of the run of digits that starts at i (i - 1 when empty)
RECURSIVE RunEnd(_, _)
RunEnd(t, i) == IF i <= Len(t) /\ t[i] \in Digits THEN RunEnd(t, i + 1)
                ELSE i - 1

\* the end of the match of \d+\.?\d* that starts at the digit t[i]
MatchEnd(t, i) ==
    LET a == RunEnd(t, i)
    IN  IF a < Len(t) /\ t[a + 1] = "." THEN RunEnd(t, a + 2) ELSE a

\* re.findall(r'\d+\.?\d*', t): the non-overlapping matches, left to right
RECURSIVE FindFrom(_, _)
FindFrom(t, i) ==
    IF i > Len(t) THEN <<>>
    ELSE IF t[i] \in Digits
         THEN <<SubSeq(t, i, MatchEnd(t, i))>> \o FindFrom(t, MatchEnd(t, i) + 1)
         ELSE FindFrom(t, i + 1)

findall(t) == FindFrom(t, 1)

\* re.sub(r'[^\d.]', '', t)
RECURSIVE StripNonNumeric(_)
StripNonNumeric(t) ==
    IF t = <<>> THEN <<>>
    ELSE (IF t[1] \in Digits \/ t[1] = "." THEN <<t[1]>> ELSE <<>>)
         \o StripNonNumeric(Tail(t))

\* needle in t
Contains(t, needle) ==
    \E i \in 1..(Len(t) - Len(needle) + 1) :
        SubSeq(t, i, i + Len(needle) - 1) = needle

(***************************************************************************)
(* Loosely typed values: None, a text or a number.                         *)
(***************************************************************************)
None == [t |-> "none", s |-> <<>>, v |-> 0]
Str(s) == [t |-> "str", s |-> s, v |-> 0]
Num(v) == [t |-> "num", s |-> <<>>, v |-> v]

\* Python truthiness of a value
Truthy(value) == \/ value.t = "str" /\ value.s # <<>>
                 \/ value.t = "num" /\ value.v # 0

KmSuffix == <<" ", "k", "m", Sup2>>
NA == <<"N", "/", "A">>

(***************************************************************************)
(* Outcome of a call that returns a float: a value, or an exception that   *)
(* leaves the function.                                                    *)
(***************************************************************************)
Ret(v) == [raised |-> FALSE, v |-> v]
Raise == [raised |-> TRUE, v |-> 0]

\* try: body / except (ValueError, TypeError): fallback
TryExcept(body, fallback) == IF body.raised THEN fallback ELSE body

\* float(text) inside a try block: ValueError when the text is no number
FloatCall(t) == IF FloatAccepts(t) THEN Ret(FloatOf(t)) ELSE Raise

(***************************************************************************)
(* json.loads (src/app.py 508, 553, 758) over texts made of the characters *)
(* of JsonAlphabet: lists, strings without escapes, integers and null,     *)
(* with blanks between the tokens.                                         *)
(***************************************************************************)
Quote == "\""
JsonAlphabet == {"[", "]", ",", Quote, " ", "a", "1", "n", "u", "l"}

\* decoded values: None, a str, an int, a list of decoded values
JNull == [t |-> "null", s |-> <<>>, v |-> 0, items |-> <<>>]
JStr(s) == [t |-> "str", s |-> s, v |-> 0, items |-> <<>>]
JNum(v) == [t |-> "num", s |-> <<>>, v |-> v, items |-> <<>>]
JList(items) == [t |-> "list", s |-> <<>>, v |-> 0, items |-> items]

\* the first position from i on that holds no blank
RECURSIVE SkipBlanks(_, _)
SkipBlanks(t, i) == IF i <= Len(t) /\ t[i] = " " THEN SkipBlanks(t, i + 1) ELSE i

\* the first position from i on that holds x, or 0
RECURSIVE IndexFrom(_, _, _)
IndexFrom(t, i, x) == IF i > Len(t) THEN 0
                      ELSE IF t[i] = x THEN i ELSE IndexFrom(t, i + 1, x)

Parsed(val, next) == [ok |-> TRUE, val |-> val, next |-> next]
NotParsed == [ok |-> FALSE, val |-> JNull, next |-> 0]

\* the scanner: the value that starts at position i and the position after it
RECURSIVE ParseValue(_, _)
RECURSIVE ParseItems(_, _, _)
ParseValue(t, i) ==
    IF i > Len(t) THEN NotParsed
    ELSE IF t[i] = Quote
    THEN LET close == IndexFrom(t, i + 1, Quote)
         IN  IF close = 0 THEN NotParsed
             ELSE Parsed(JStr(SubSeq(t, i + 1, close - 1)), close + 1)
    ELSE IF t[i] = "0" THEN Parsed(JNum(0), i + 1)
    ELSE IF t[i] \in Digits
    THEN LET end == RunEnd(t, i)
         IN  Parsed(JNum(NatOf(SubSeq(t, i, end))), end + 1)
    ELSE IF t[i] = "n"
    THEN IF i + 3 <= Len(t) /\ SubSeq(t, i, i + 3) = <<"n", "u", "l", "l">>
         THEN Parsed(JNull, i + 4) ELSE NotParsed
    ELSE IF t[i] = "["
    THEN LET first == SkipBlanks(t, i + 1)
         IN  IF first <= Len(t) /\ t[first] = "]" THEN Parsed(JList(<<>>), first + 1)
             ELSE ParseItems(t, first, <<>>)
    ELSE NotParsed

\* the items of a list from position i on, after the items of acc
ParseItems(t, i, acc) ==
    LET item == ParseValue(t, i)
        after == SkipBlanks(t, item.next)
    IN  IF ~item.ok \/ after > Len(t) THEN NotParsed
        ELSE IF t[after] = "," THEN ParseItems(t, SkipBlanks(t, after + 1), Append(acc, item.val))
        ELSE IF t[after] = "]" THEN Parsed(JList(Append(acc, item.val)), after + 1)
        ELSE NotParsed

\* json.loads(value): TypeError for None, JSONDecodeError for a text that is
\* not one JSON value
json_loads(value) ==
    IF value.t # "str" THEN Raise
    ELSE LET parsed == ParseValue(value.s, SkipBlanks(value.s, 1))
         IN  IF parsed.ok /\ SkipBlanks(value.s, parsed.next) > Len(value.s)
             THEN Ret(parsed.val) ELSE Raise

(***************************************************************************)
(* extract_number (src/app.py 95-109)                                      *)
(***************************************************************************)
extract_number_no_guard(value) ==
    IF value.t = "none" \/ (value.t = "str" /\ value.s = <<>>) THEN Ret(0)
    ELSE IF value.t = "num" THEN Ret(value.v)
    ELSE LET numbers == findall(value.s)
         IN  IF numbers = <<>> THEN Raise    \* numbers[0]: IndexError, not caught
             ELSE TryExcept(FloatCall(numbers[1]), Ret(0))

extract_number(value) ==
    IF value.t = "none" \/ (value.t = "str" /\ value.s = <<>>) THEN Ret(0)
    ELSE TryExcept(
           IF value.t = "num" THEN Ret(value.v)
           ELSE LET numbers == findall(value.s)
                IN  IF numbers # <<>> THEN FloatCall(numbers[1]) ELSE Ret(0),
           Ret(0))

(***************************************************************************)
(* The template filters (src/app.py 18-93)                                 *)
(***************************************************************************)
\* the rendering of a float by format_int: "{int(num):,}" or "{num:,.1f}"
IntStyle(num) == IF is_integer(num) THEN Grouped(num \div Scale) ELSE Fmt1f(num)

format_int(value) ==
    IF value.t = "none" \/ (value.t = "str" /\ value.s = <<>>) THEN NA
    ELSE IF value.t = "str"
         THEN LET cleaned == StripNonNumeric(value.s)
              IN  IF cleaned # <<>>
                  THEN IF FloatAccepts(cleaned) THEN IntStyle(FloatOf(cleaned))
                       ELSE value.s          \* ValueError: str(value)
                  ELSE value.s
         ELSE IntStyle(value.v)

\* the filter registered as 'format_area' (the first definition of the name)
format_area_filter(value) ==
    IF value.t = "none" \/ (value.t = "str" /\ value.s = <<>>) THEN NA
    ELSE IF value.t = "str"
         THEN LET numbers == findall(value.s)
              IN  IF Contains(value.s, <<"k", "m", Sup2>>) \/ Contains(value.s, <<"k", "m">>)
                  THEN IF numbers # <<>> THEN Fmt0f(FloatOf(numbers[1])) \o KmSuffix
                       ELSE value.s
                  ELSE IF numbers # <<>> THEN Fmt0f(FloatOf(numbers[1])) \o KmSuffix
                       ELSE value.s \o KmSuffix
         ELSE Fmt0f(value.v) \o KmSuffix

(***************************************************************************)
(* The helper formatters (src/app.py 327-345)                              *)
(***************************************************************************)
format_population(population) ==
    IF population.t = "str" THEN Fmt0f(extract_number(population).v)
    ELSE IF population.t = "num" THEN Fmt0f(population.v)
    ELSE NA                                  \* float(None): TypeError

\* the module-level format_area (the second definition of the name)
format_area(area) ==
    IF area.t = "str" THEN Fmt0f(extract_number(area).v) \o KmSuffix
    ELSE IF area.t = "num" THEN Fmt0f(area.v) \o KmSuffix
    ELSE NA                                  \* float(None): TypeError

(***************************************************************************)
(* Values of the variables a specification does not use.                   *)
(***************************************************************************)
NoSession == [has |-> FALSE, visited_countries |-> <<>>]
NoHist == [inserted |-> <<>>, recent |-> <<>>, views |-> 0, repeats |-> 0]
NoReq == [op |-> "none"]
NoResp == [op |-> "none"]

(***************************************************************************)
(* SpecNum: the extractor and the formatters applied to one input.         *)
(***************************************************************************)
\* every text of at most MaxLen characters of the alphabet
Texts == UNION {[1..n -> Alphabet] : n \in 0..MaxLen}

\* the texts the documentation gives as examples
ExampleArea == <<"1", ",", "2", "3", "4", " ", "k", "m", Sup2>>
ExampleMillion == <<"3", "2", "8", " ", "m", "i", "l", "l", "i", "o", "n">>
ExampleDecimal == <<"1", ".", "2", " ", "m", "i", "l", "l", "i", "o", "n">>
ExampleComma == <<"1", ",", "2", "3", "4">>

\* numbers given directly: 0, 0.5, 1, 1.5, 1234 and 1234.5
Numbers == {0, Scale \div 2, Scale, 3 * (Scale \div 2), 1234 * Scale,
            1234 * Scale + Scale \div 2}

NumInputs == {None} \cup {Str(t) : t \in Texts}
             \cup {Str(ExampleArea), Str(ExampleMillion), Str(ExampleDecimal),
                   Str(ExampleComma)}
             \cup {Num(v) : v \in Numbers}

InitNum ==
    /\ arg \in NumInputs
    /\ resp = NoResp
    /\ db = {}
    /\ session = NoSession
    /\ hist = NoHist
    /\ req = NoReq

ExtractNumber ==
    /\ resp' = [op |-> "extract_number", res |-> extract_number(arg)]
    /\ UNCHANGED <<db, session, hist, arg, req>>

FormatInt ==
    /\ resp' = [op |-> "format_int", out |-> format_int(arg)]
    /\ UNCHANGED <<db, session, hist, arg, req>>

FormatAreaFilter ==
    /\ resp' = [op |-> "format_area_filter", out |-> format_area_filter(arg)]
    /\ UNCHANGED <<db, session, hist, arg, req>>

FormatPopulation ==
    /\ resp' = [op |-> "format_population", out |-> format_population(arg)]
    /\ UNCHANGED <<db, session, hist, arg, req>>

FormatArea ==
    /\ resp' = [op |-> "format_area", out |-> format_area(arg)]
    /\ UNCHANGED <<db, session, hist, arg, req>>

NextNum == \/ ExtractNumber
           \/ FormatInt
           \/ FormatAreaFilter
           \/ FormatPopulation
           \/ FormatArea

SpecNum == InitNum /\ [][NextNum]_vars

HasDigit(t) == \E i \in 1..Len(t) : t[i] \in Digits

\* C4: extract_number of the text "1,234 km2" (a number written with comma
\* thousands separators, then a unit suffix) is the whole number 1234.0.
C4_ExtractsWholeNumber ==
    (resp.op = "extract_number" /\ arg = Str(ExampleArea))
        => resp.res = Ret(1234 * Scale)

\* C5: for an absent value and for every text without a digit (the empty
\* text included) extract_number returns zero and does not raise.
C5_NoDigitGivesZero ==
    (/\ resp.op = "extract_number"
     /\ \/ arg.t = "none"
        \/ arg.t = "str" /\ ~HasDigit(arg.s))
        => (~resp.res.raised /\ resp.res.v = 0)

\* C5 witness: extract_number has been applied to a non-empty text that
\* holds no digit.
C5_Witness ==
    /\ resp.op = "extract_number"
    /\ arg.t = "str"
    /\ Len(arg.s) = MaxLen
    /\ ~HasDigit(arg.s)
    /\ \E i \in 1..Len(arg.s) : arg.s[i] = "."

\* C9: for every text, what a formatter renders for the text is what it
\* renders for extract_number(text), for format_int, the format_area filter,
\* format_population and format_area alike.
C9_FormattersDelegate ==
    arg.t = "str" =>
        LET n == Num(extract_number(arg).v)
        IN  /\ resp.op = "format_int" => resp.out = format_int(n)
            /\ resp.op = "format_area_filter" => resp.out = format_area_filter(n)
            /\ resp.op = "format_population" => resp.out = format_population(n)
            /\ resp.op = "format_area" => resp.out = format_area(n)

(***************************************************************************)
(* The countries table.  A row holds the columns the handlers read; a      *)
(* column is None (NULL) or a text.  Names are the unique key.             *)
(***************************************************************************)
Row(name, capital, region, population, area) ==
    [name |-> name, capital |-> capital, region |-> region,
     population |-> population, area |-> area, languages |-> None]

\* the row with the text of its languages column set
WithLanguages(row, text) == [row EXCEPT !.languages = Str(text)]

Catalogue ==
    { WithLanguages(Row(2, Str(<<"A">>), Str(<<"X">>), Str(<<"1", "0">>),
                        Str(<<"2", "0", " ", "k", "m">>)),
                    <<"[", Quote, "a", Quote, ",", " ", Quote, "u", Quote, "]">>),
      WithLanguages(Row(4, Str(<<"B">>), Str(<<"Y">>), Str(<<"1", ",", "0", "0", "0">>),
                        Str(<<"0", ".", "5">>)),
                    <<"[", "]">>),
      Row(6, Str(<<"C">>), Str(<<"Z">>), Str(ExampleDecimal), None),
      WithLanguages(Row(8, Str(<<"D">>), Str(<<"W">>), None, Str(ExampleArea)), <<>>),
      WithLanguages(Row(10, None, None, Str(<<"k">>), Str(<<>>)),
                    <<"[", Quote, "a", Quote>>),
      WithLanguages(Row(12, Str(<<>>), Str(<<>>), Str(<<>>), None),
                    <<"n", "u", "l", "l">>) }

\* the query of lines 458-461 and 745-748 without its WHERE clause
SelectByName_any(name) == db

\* SELECT * FROM countries WHERE name = ?  (fetchone: a row or nothing)
SelectByName(name) == {r \in db : r.name = name}

\* the languages of a response that carries no country
NoLanguages == [t |-> "absent", s |-> <<>>, v |-> 0, items |-> <<>>]

\* lines 506-512 and 551-557: a falsy column gives [], a text is decoded, and
\* a decoding error gives []
page_languages(country_dict) ==
    IF Truthy(country_dict.languages)
    THEN TryExcept(json_loads(country_dict.languages), Ret(JList(<<>>))).v
    ELSE JList(<<>>)

\* lines 757-760: the column is decoded, and a decoding error gives []
api_languages(country_dict) ==
    TryExcept(json_loads(country_dict.languages), Ret(JList(<<>>))).v

(***************************************************************************)
(* SpecSession: the country-detail view and the recently-viewed list       *)
(* (src/app.py 443-519).                                                   *)
(***************************************************************************)
\* the cap of the recently-viewed list
MaxVisited == 10

\* names a visitor asks for are 1..NumNames; a name not viewed before is
\* taken in increasing order
NumNames == 12
\* views of one session
MaxViews == 13
\* views of a name that is in the list at the time of the view
MaxRepeats == 2

Range(q) == {q[i] : i \in 1..Len(q)}

\* q[-n:]
LastN(q, n) == IF Len(q) > n THEN SubSeq(q, Len(q) - n + 1, Len(q)) ELSE q

\* q with every occurrence of x removed
RECURSIVE Without(_, _)
Without(q, x) == IF q = <<>> THEN <<>>
                 ELSE (IF q[1] = x THEN <<>> ELSE <<q[1]>>) \o Without(Tail(q), x)

\* lines 450-453 with the slice taken from the wrong end
TrackVisit_keep_first(visited, country_name) ==
    IF country_name \notin Range(visited)
    THEN LET appended == Append(visited, country_name)
         IN  IF Len(appended) > MaxVisited THEN SubSeq(appended, 1, MaxVisited)
             ELSE appended
    ELSE visited

\* lines 450-453 without the membership test of line 450: a listed name is
\* moved to the end of the list
TrackVisit_refresh(visited, country_name) ==
    LastN(Append(Without(visited, country_name), country_name), MaxVisited)

\* lines 450-453: append an unlisted name, keep the last MaxVisited
TrackVisit(visited, country_name) ==
    IF country_name \notin Range(visited)
    THEN LET appended == Append(visited, country_name)
         IN  IF Len(appended) > MaxVisited THEN LastN(appended, MaxVisited)
             ELSE appended
    ELSE visited

InitSession ==
    /\ db = Catalogue
    /\ session = NoSession
    /\ hist = NoHist
    /\ arg = None
    /\ req = NoReq
    /\ resp = NoResp

\* country() with the lookup of lines 456-465 moved before the tracking of
\* lines 446-454: a name that matches no record is not recorded
Country_lookup_first(country_name) ==
    LET visited == IF session.has THEN session.visited_countries ELSE <<>>
        listed  == country_name \in Range(visited)
        country_details == SelectByName(country_name)
        found   == country_details # {}
    IN  /\ session' = IF found
                      THEN [has |-> TRUE,
                            visited_countries |-> TrackVisit(visited, country_name)]
                      ELSE session
        /\ hist' = [inserted |-> IF listed \/ ~found THEN hist.inserted
                                 ELSE Append(hist.inserted, country_name),
                    recent   |-> Append(Without(hist.recent, country_name), country_name),
                    views    |-> hist.views + 1,
                    repeats  |-> IF listed THEN hist.repeats + 1 ELSE hist.repeats]
        /\ resp' = [op |-> "country", country_name |-> country_name,
                    status |-> IF found THEN 200 ELSE 404,
                    languages |-> IF found
                                  THEN page_languages(CHOOSE r \in country_details : TRUE)
                                  ELSE NoLanguages]
        /\ UNCHANGED <<db, arg, req>>

\* GET /country/<country_name>
Country(country_name) ==
    LET visited == IF session.has THEN session.visited_countries ELSE <<>>
        listed  == country_name \in Range(visited)
        country_details == SelectByName(country_name)
    IN  /\ session' = [has |-> TRUE,
                       visited_countries |-> TrackVisit(visited, country_name)]
        /\ hist' = [inserted |-> IF listed THEN hist.inserted
                                 ELSE Append(hist.inserted, country_name),
                    recent   |-> Append(Without(hist.recent, country_name), country_name),
                    views    |-> hist.views + 1,
                    repeats  |-> IF listed THEN hist.repeats + 1 ELSE hist.repeats]
        /\ resp' = [op |-> "country", country_name |-> country_name,
                    status |-> IF country_details = {} THEN 404 ELSE 200,
                    languages |-> IF country_details = {} THEN NoLanguages
                                  ELSE page_languages(CHOOSE r \in country_details : TRUE)]
        /\ UNCHANGED <<db, arg, req>>

\* the views explored: MaxViews views, MaxRepeats of them of a listed name,
\* and a name not viewed before is the least such name
ViewBound(country_name) ==
    /\ hist.views < MaxViews
    /\ country_name \in Range(session.visited_countries) => hist.repeats < MaxRepeats
    /\ country_name <= Len(hist.recent) + 1

NextSession ==
    \E country_name \in 1..NumNames : ViewBound(country_name) /\ Country(country_name)

SpecSession == InitSession /\ [][NextSession]_vars

\* C1 as stated: the list holds at most 10 names, and they are the 10 names
\* viewed most recently (hist.recent orders the viewed names by their latest
\* view).
C1_TenMostRecentlyViewed ==
    /\ Len(session.visited_countries) <= MaxVisited
    /\ Range(session.visited_countries) = Range(LastN(hist.recent, MaxVisited))

\* C1 amended: the list holds at most 10 names, and it is the 10 names added
\* most recently, in the order they were added; a view adds its name only when
\* the name is not in the list, so a view of a listed name refreshes nothing.
C1_TenMostRecentlyAdded ==
    /\ Len(session.visited_countries) <= MaxVisited
    /\ session.visited_countries = LastN(hist.inserted, MaxVisited)

\* C1 witness: a full list after an eviction and after a view of a listed name.
C1_Witness ==
    /\ Len(session.visited_countries) = MaxVisited
    /\ Len(hist.inserted) > MaxVisited
    /\ hist.repeats > 0

NoDuplicates(q) == \A i, j \in 1..Len(q) : q[i] = q[j] => i = j

\* C16: after any sequence of country-detail views the recently-viewed list
\* holds no name twice, and a view of a name that is in the list leaves the
\* list as it was, in content and in order.
C16_NoDuplicateNoReorder ==
    [][hist'.views = hist.views + 1 =>
         /\ NoDuplicates(session'.visited_countries)
         /\ resp'.country_name \in Range(session.visited_countries)
              => session'.visited_countries = session.visited_countries]_vars

\* C16 witness: the last view was of a name that was in a full list and was
\* not its newest entry.
C16_Witness ==
    /\ resp.op = "country"
    /\ hist.repeats > 0
    /\ Len(session.visited_countries) = MaxVisited
    /\ hist.recent[Len(hist.recent)] = resp.country_name
    /\ session.visited_countries[MaxVisited] # resp.country_name

\* C17: the country-detail view records the name before it looks the record
\* up: a view of a name that is not in the list puts it at the end of the
\* list, dropping the oldest entry of a full list, whether the view ends in
\* 200 or in 404.
C17_RecordedBeforeLookup ==
    [][(hist'.views = hist.views + 1
        /\ resp'.country_name \notin Range(session.visited_countries)) =>
         LET old == session.visited_countries
             new == session'.visited_countries
             kept == IF Len(old) = MaxVisited THEN Tail(old) ELSE old
         IN  /\ resp'.status \in {200, 404}
             /\ new = kept \o <<resp'.country_name>>]_vars

\* C17 witness: a view that ended in not-found added its name to a full list
\* and evicted the oldest entry.
C17_Witness ==
    /\ resp.op = "country"
    /\ resp.status = 404
    /\ Len(hist.inserted) > MaxVisited
    /\ hist.inserted[Len(hist.inserted)] = resp.country_name
    /\ session.visited_countries[MaxVisited] = resp.country_name
    /\ hist.inserted[1] \notin Range(session.visited_countries)

(***************************************************************************)
(* calculate_comparisons (src/app.py 295-325)                              *)
(***************************************************************************)
Max(a, b) == IF a >= b THEN a ELSE b
Min(a, b) == IF a <= b THEN a ELSE b

\* country.get(field, 0) or 0
OrZero(value) == IF Truthy(value) THEN value ELSE Num(0)

\* the loop of lines 306-319 over countries[1..n]: the running max, min and
\* totals, or raised when a call inside the loop raised
RECURSIVE ComparisonLoop(_, _)
ComparisonLoop(countries, n) ==
    IF n = 0
    THEN [raised |-> FALSE,
          pop_max |-> 0, pop_min |-> Inf, total_pop |-> 0,
          area_max |-> 0, area_min |-> Inf, total_area |-> 0]
    ELSE LET acc      == ComparisonLoop(countries, n - 1)
             pop_num  == extract_number(OrZero(countries[n].population))
             area_num == extract_number(OrZero(countries[n].area))
         IN  IF acc.raised \/ pop_num.raised \/ area_num.raised
             THEN [acc EXCEPT !.raised = TRUE]
             ELSE [raised |-> FALSE,
                   pop_max |-> Max(acc.pop_max, pop_num.v),
                   pop_min |-> Min(acc.pop_min, pop_num.v),
                   total_pop |-> acc.total_pop + pop_num.v,
                   area_max |-> Max(acc.area_max, area_num.v),
                   area_min |-> Min(acc.area_min, area_num.v),
                   total_area |-> acc.total_area + area_num.v]

\* a quotient of two floats, kept exact as numerator over denominator
Ratio(num, den) == [num |-> num, den |-> den]

\* the result of calculate_comparisons with the locals count, total_pop and
\* total_area it computed on the way
Comparisons(acc, count, pop_avg, area_avg) ==
    [raised |-> acc.raised,
     count |-> count, total_pop |-> acc.total_pop, total_area |-> acc.total_area,
     population |-> [max |-> acc.pop_max, min |-> acc.pop_min, avg |-> pop_avg],
     area |-> [max |-> acc.area_max, min |-> acc.area_min, avg |-> area_avg]]

\* calculate_comparisons without the count > 0 test before the divisions
calculate_comparisons_unguarded(countries) ==
    LET count == Len(countries)
        acc   == ComparisonLoop(countries, count)
    IN  IF count = 0
        THEN Comparisons([acc EXCEPT !.raised = TRUE], count, Ratio(0, 1), Ratio(0, 1))
        ELSE Comparisons(acc, count, Ratio(acc.total_pop, count),
                         Ratio(acc.total_area, count))

\* calculate_comparisons with the minimum started at 0 like the maximum
calculate_comparisons_min_zero(countries) ==
    LET count == Len(countries)
        acc   == ComparisonLoop(countries, count)
        low   == [acc EXCEPT !.pop_min = Min(0, acc.pop_min),
                             !.area_min = Min(0, acc.area_min)]
    IN  IF count > 0
        THEN Comparisons(low, count, Ratio(acc.total_pop, count),
                         Ratio(acc.total_area, count))
        ELSE Comparisons(low, count, Ratio(0, 1), Ratio(0, 1))

calculate_comparisons(countries) ==
    LET count == Len(countries)
        acc   == ComparisonLoop(countries, count)
    IN  IF count > 0 /\ ~acc.raised
        THEN Comparisons(acc, count, Ratio(acc.total_pop, count),
                         Ratio(acc.total_area, count))
        ELSE Comparisons(acc, count, Ratio(0, 1), Ratio(0, 1))

(***************************************************************************)
(* calculate_country_stats (src/app.py 154-239): the count, the total      *)
(* population, the per-region counts and the popular countries.  The       *)
(* largest_country and smallest_country strings are not modelled.          *)
(***************************************************************************)
NotEmpty(value) == value.t = "str" /\ value.s # <<>>

\* a set of rows as the sequence ORDER BY name gives
RECURSIVE OrderByName(_)
OrderByName(rows) ==
    IF rows = {} THEN <<>>
    ELSE LET first == CHOOSE r \in rows : \A o \in rows : r.name <= o.name
         IN  <<first>> \o OrderByName(rows \ {first})

\* lines 174-186: the sum of the first number of every non-empty population
RECURSIVE TotalPopulation(_)
TotalPopulation(rows) ==
    IF rows = {} THEN 0
    ELSE LET r == CHOOSE x \in rows : TRUE
             numbers == findall(r.population.s)
         IN  (IF numbers # <<>> /\ FloatAccepts(numbers[1])
              THEN FloatOf(numbers[1]) ELSE 0)
             + TotalPopulation(rows \ {r})

calculate_country_stats ==
    [total_countries |-> Cardinality(db),
     total_population |-> TotalPopulation({r \in db : NotEmpty(r.population)}),
     continents |-> [region \in {r.region : r \in {x \in db : NotEmpty(x.region)}}
                        |-> Cardinality({r \in db : r.region = region})],
     popular_countries |->
        IF session.has /\ session.visited_countries # <<>>
        THEN [i \in DOMAIN OrderByName({r \in db : r.name \in Range(session.visited_countries)})
                 |-> OrderByName({r \in db : r.name \in Range(session.visited_countries)})[i].name]
        ELSE <<>>]

(***************************************************************************)
(* The statistics view (src/app.py 764-859): the two top-10 rankings.      *)
(* The per-continent totals of lines 814-851 are not modelled.             *)
(***************************************************************************)
\* the length of a ranking
TopN == 10

\* list.sort(key=..., reverse=True) placing equal keys in reversed order
InsertDesc_ties_reversed(sorted, x) ==
    LET k == Cardinality({i \in 1..Len(sorted) : sorted[i].num > x.num})
    IN  SubSeq(sorted, 1, k) \o <<x>> \o SubSeq(sorted, k + 1, Len(sorted))

\* one step of the stable descending sort: x goes after every entry whose
\* key is greater than or equal to its own
InsertDesc(sorted, x) ==
    LET k == Cardinality({i \in 1..Len(sorted) : sorted[i].num >= x.num})
    IN  SubSeq(sorted, 1, k) \o <<x>> \o SubSeq(sorted, k + 1, Len(sorted))

\* list.sort(key=lambda x: x[...], reverse=True): stable, descending
RECURSIVE SortDesc(_)
SortDesc(q) == IF q = <<>> THEN <<>>
               ELSE InsertDesc(SortDesc(SubSeq(q, 1, Len(q) - 1)), q[Len(q)])

\* q[:n]
FirstN(q, n) == IF Len(q) > n THEN SubSeq(q, 1, n) ELSE q

\* lines 771-791: rows with a population, by name, with the extracted number
PopulousRaw ==
    LET raw == OrderByName({r \in db : NotEmpty(r.population)})
    IN  [i \in DOMAIN raw |-> [name |-> raw[i].name, text |-> raw[i].population,
                               num |-> extract_number(raw[i].population).v]]

\* lines 793-808: the same for the area
AreaRaw ==
    LET raw == OrderByName({r \in db : NotEmpty(r.area)})
    IN  [i \in DOMAIN raw |-> [name |-> raw[i].name, text |-> raw[i].area,
                               num |-> extract_number(raw[i].area).v]]

top_populous == FirstN(SortDesc(PopulousRaw), TopN)

top_area == FirstN(SortDesc(AreaRaw), TopN)

\* GET /stats
Statistics ==
    /\ resp' = [op |-> "statistics", stats |-> calculate_country_stats,
                top_populous |-> top_populous, top_area |-> top_area]
    /\ UNCHANGED <<db, session, hist, arg, req>>

(***************************************************************************)
(* The compare view (src/app.py 521-565)                                   *)
(***************************************************************************)
\* GET /compare?countries=<names>: arg is the list of names of the request,
\* given as a set; the rows come back in the order of the table, which is
\* kept by name
CompareCountries ==
    LET countries_list == arg.countries_list
        countries == OrderByName({r \in db : r.name \in countries_list})
    IN  /\ IF Cardinality(countries_list) < 2 \/ Len(countries) < 2
           THEN resp' = [op |-> "compare", status |-> 302]
           ELSE resp' = [op |-> "compare", status |-> 200,
                         countries |-> countries,
                         languages |-> [i \in 1..Len(countries) |->
                                          page_languages(countries[i])],
                         comparisons |-> calculate_comparisons(countries)]
        /\ UNCHANGED <<db, session, hist, arg, req>>

\* calculate_comparisons applied to the rows the names of arg select
CalculateComparisons ==
    LET countries == OrderByName({r \in db : r.name \in arg.countries_list})
    IN  /\ resp' = [op |-> "calculate_comparisons", status |-> 200,
                    countries |-> countries,
                    comparisons |-> calculate_comparisons(countries)]
        /\ UNCHANGED <<db, session, hist, arg, req>>

(***************************************************************************)
(* SpecAgg: the aggregations over a table of at most MaxRows rows of the   *)
(* catalogue.                                                              *)
(***************************************************************************)
MaxRows == 4

DBs == {rows \in SUBSET Catalogue : Cardinality(rows) <= MaxRows}

\* the name of no row of the catalogue: one less than the least name
MissingName == (CHOOSE n \in {r.name : r \in Catalogue} :
                    \A m \in {r.name : r \in Catalogue} : n <= m) - 1

InitAgg ==
    /\ db \in DBs
    /\ session = NoSession
    /\ hist = NoHist
    /\ \E countries_list \in SUBSET ({r.name : r \in db} \cup {MissingName}) :
          arg = [countries_list |-> countries_list]
    /\ req = NoReq
    /\ resp = NoResp

NextAgg ==
    \/ CompareCountries
    \/ CalculateComparisons
    \/ Statistics

SpecAgg == InitAgg /\ [][NextAgg]_vars

PopMag(c) == extract_number(c.population).v
AreaMag(c) == extract_number(c.area).v

RECURSIVE SeqSum(_)
SeqSum(q) == IF q = <<>> THEN 0 ELSE q[1] + SeqSum(Tail(q))

\* m is the largest (smallest) of the numbers of q, avg their mean
IsMaxOf(m, q) == (\E i \in DOMAIN q : q[i] = m) /\ (\A i \in DOMAIN q : q[i] <= m)
IsMinOf(m, q) == (\E i \in DOMAIN q : q[i] = m) /\ (\A i \in DOMAIN q : q[i] >= m)
IsMeanOf(avg, q) == avg.den > 0 /\ avg.num * Len(q) = SeqSum(q) * avg.den

\* C7: for a non-empty list of country records calculate_comparisons gives,
\* for population and for area, max = the largest extracted magnitude, min =
\* the smallest, avg = the sum of the magnitudes over the number of records.
C7_MaxMinAvg ==
    (/\ resp.op \in {"compare", "calculate_comparisons"}
     /\ resp.status = 200
     /\ resp.countries # <<>>)
        => LET c    == resp.countries
               pops  == [i \in DOMAIN c |-> PopMag(c[i])]
               areas == [i \in DOMAIN c |-> AreaMag(c[i])]
               r    == resp.comparisons
           IN  /\ ~r.raised
               /\ IsMaxOf(r.population.max, pops)
               /\ IsMinOf(r.population.min, pops)
               /\ IsMeanOf(r.population.avg, pops)
               /\ IsMaxOf(r.area.max, areas)
               /\ IsMinOf(r.area.min, areas)
               /\ IsMeanOf(r.area.avg, areas)

\* C7 witness: a comparison of at least two records whose populations differ and
\* none of whose populations or areas extracts to zero.
C7_Witness ==
    /\ resp.op = "compare"
    /\ resp.status = 200
    /\ Len(resp.countries) >= 2
    /\ resp.comparisons.population.min > 0
    /\ resp.comparisons.area.min > 0
    /\ resp.comparisons.population.max > resp.comparisons.population.min

\* C8: aggregation over no records does not fail: calculate_comparisons of
\* the empty list returns with count 0, sums 0 and the average 0, and the
\* statistics of an empty table are count 0 and total population 0.
C8_EmptyAggregation ==
    /\ (resp.op = "calculate_comparisons" /\ resp.countries = <<>>)
          => /\ ~resp.comparisons.raised
             /\ resp.comparisons.count = 0
             /\ resp.comparisons.total_pop = 0
             /\ resp.comparisons.total_area = 0
             /\ resp.comparisons.population.avg = Ratio(0, 1)
             /\ resp.comparisons.area.avg = Ratio(0, 1)
    /\ (resp.op = "statistics" /\ db = {})
          => /\ resp.stats.total_countries = 0
             /\ resp.stats.total_population = 0

\* C8 witness: calculate_comparisons has been applied to the empty list.
C8_Witness ==
    /\ resp.op = "calculate_comparisons"
    /\ resp.countries = <<>>

(***************************************************************************)
(* SpecLookup: the pages and the endpoint that look countries up by name,  *)
(* over a table of at most MaxRows rows of the catalogue                   *)
(* (src/app.py 443-565, 740-762).                                          *)
(***************************************************************************)
\* country-detail views of one session
MaxLookups == 1

\* GET /api/country/<country_name>
ApiCountry(country_name) ==
    LET country == SelectByName(country_name)
    IN  /\ resp' = [op |-> "api_country", country_name |-> country_name,
                    status |-> IF country = {} THEN 404 ELSE 200,
                    languages |-> IF country = {} THEN NoLanguages
                                  ELSE api_languages(CHOOSE r \in country : TRUE)]
        /\ UNCHANGED <<db, session, hist, arg, req>>

\* the names asked for: those of the catalogue and one of no row
LookupNames == {r.name : r \in Catalogue} \cup {MissingName}

\* the compare request names every row of the table and a name of no row
InitLookup ==
    /\ db \in DBs
    /\ session = NoSession
    /\ hist = NoHist
    /\ arg = [countries_list |-> {r.name : r \in db} \cup {MissingName}]
    /\ req = NoReq
    /\ resp = NoResp

NextLookup ==
    \/ \E country_name \in LookupNames :
          \/ hist.views < MaxLookups /\ Country(country_name)
          \/ ApiCountry(country_name)
    \/ CompareCountries

SpecLookup == InitLookup /\ [][NextLookup]_vars

\* C12: on the country detail page and on the JSON country endpoint alike, a
\* name that matches no record of the table yields 404 and a name that
\* matches a record never does.
C12_NotFoundIffNoRecord ==
    resp.op \in {"country", "api_country"} =>
        (resp.status = 404 <=> ~ \E r \in db : r.name = resp.country_name)

\* C12 witness: the JSON endpoint answered 404 for a name that is not in a
\* table that has rows, after the detail page answered 404 too.
C12_Witness ==
    /\ resp.op = "api_country"
    /\ resp.status = 404
    /\ db # {}
    /\ hist.views > 0
    /\ \A i \in 1..Len(session.visited_countries) :
          ~ \E r \in db : r.name = session.visited_countries[i]

\* the names of languages and the lists of them a table stores
LanguageNames == {<<"a">>, <<"u">>}
LanguageLists == {<<>>} \cup {<<x>> : x \in LanguageNames}
                 \cup {<<x, y>> : x, y \in LanguageNames}

\* a list of names written as a JSON list with the separator sep
RECURSIVE JoinQuoted(_, _)
JoinQuoted(names, sep) ==
    IF names = <<>> THEN <<>>
    ELSE <<Quote>> \o names[1] \o <<Quote>>
         \o (IF Len(names) > 1 THEN sep ELSE <<>>) \o JoinQuoted(Tail(names), sep)

SerializedList(names, sep) == Str(<<"[">> \o JoinQuoted(names, sep) \o <<"]">>)

Separators == {<<",">>, <<",", " ">>}

\* the stored languages value and the languages field of every country
\* representation of the response
Representations ==
    IF resp.op \in {"country", "api_country"}
    THEN IF resp.status = 200
         THEN {<<(CHOOSE r \in db : r.name = resp.country_name).languages,
                 resp.languages>>}
         ELSE {}
    ELSE IF resp.op = "compare"
    THEN IF resp.status = 200
         THEN {<<resp.countries[i].languages, resp.languages[i]>> :
                 i \in 1..Len(resp.countries)}
         ELSE {}
    ELSE {}

\* C13: in every country representation returned (JSON endpoint, detail
\* page, compare page) the languages field is a list: the list of the names
\* in their stored order when the stored value is a serialized list, and the
\* empty list when the stored value is absent or is anything else.
C13_LanguagesIsList ==
    \A rep \in Representations :
        LET stored == rep[1]
            languages == rep[2]
            serialized == \E names \in LanguageLists, sep \in Separators :
                              stored = SerializedList(names, sep)
        IN  /\ languages.t = "list"
            /\ \A names \in LanguageLists, sep \in Separators :
                  stored = SerializedList(names, sep)
                  => languages = JList([i \in 1..Len(names) |-> JStr(names[i])])
            /\ ~serialized => languages = JList(<<>>)

(***************************************************************************)
(* SpecStats: the statistics view over tables of more rows than a ranking  *)
(* lists.  Rows are named 1..n; a row is small (population 1, area 10 km), *)
(* large (population 10, area 1) or, for at most one row, blank.           *)
(***************************************************************************)
MaxStatRows == 11
\* large rows of one table
MaxLarge == 2

SmallRow(name) == Row(name, Str(<<"S">>), Str(<<"X">>), Str(<<"1">>),
                      Str(<<"1", "0", " ", "k", "m">>))
LargeRow(name) == Row(name, Str(<<"L">>), Str(<<"Y">>), Str(<<"1", "0">>),
                      Str(<<"1">>))
BlankRow(name) == Row(name, None, None, Str(<<>>), None)

StatDBs ==
    UNION { { {IF i = blank THEN BlankRow(i)
               ELSE IF i \in large THEN LargeRow(i) ELSE SmallRow(i) : i \in 1..n}
              : large \in {l \in SUBSET (1..n) : Cardinality(l) <= MaxLarge},
                blank \in 0..n }
            : n \in 0..MaxStatRows }

InitStats ==
    /\ db \in StatDBs
    /\ session = NoSession
    /\ hist = NoHist
    /\ arg = None
    /\ req = NoReq
    /\ resp = NoResp

NextStats == Statistics

SpecStats == InitStats /\ [][NextStats]_vars

\* the position of the entry named name in the list q (0 when absent)
PosOf(q, name) == IF \E i \in DOMAIN q : q[i].name = name
                  THEN CHOOSE i \in DOMAIN q : q[i].name = name ELSE 0

\* top is a top-N ranking of the list raw: at most N entries of raw, as many
\* as raw allows, by descending magnitude, equal magnitudes in the order of
\* raw, and nothing left out that is larger than a listed entry
IsStableTopN(top, raw) ==
    /\ Len(top) = Min(TopN, Len(raw))
    /\ \A i \in DOMAIN top : PosOf(raw, top[i].name) > 0
                             /\ raw[PosOf(raw, top[i].name)] = top[i]
    /\ \A i, j \in DOMAIN top : i < j =>
          /\ top[i].num >= top[j].num
          /\ top[i].num = top[j].num
                => PosOf(raw, top[i].name) < PosOf(raw, top[j].name)
    /\ \A k \in DOMAIN raw : PosOf(top, raw[k].name) = 0 =>
          \A i \in DOMAIN top : top[i].num >= raw[k].num

\* C6: each ranking of the statistics view (by population, by area) lists at
\* most 10 records by descending extracted magnitude, and records of equal
\* magnitude keep the relative order of the input (the rows by name).
C6_StableTopN ==
    resp.op = "statistics" =>
        /\ IsStableTopN(resp.top_populous, PopulousRaw)
        /\ IsStableTopN(resp.top_area, AreaRaw)
        /\ \A i \in DOMAIN resp.top_populous :
              resp.top_populous[i].num = extract_number(resp.top_populous[i].text).v
        /\ \A i \in DOMAIN resp.top_area :
              resp.top_area[i].num = extract_number(resp.top_area[i].text).v

\* C6 witness: more than 10 rows qualify, so the ranking is cut, and it holds
\* both equal and different magnitudes.
C6_Witness ==
    /\ resp.op = "statistics"
    /\ Len(PopulousRaw) > TopN
    /\ Len(resp.top_populous) = TopN
    /\ \E i, j \in DOMAIN resp.top_populous :
          i < j /\ resp.top_populous[i].num = resp.top_populous[j].num
    /\ \E i, j \in DOMAIN resp.top_populous :
          resp.top_populous[i].num > resp.top_populous[j].num
    /\ \E k \in DOMAIN PopulousRaw : PosOf(resp.top_populous, PopulousRaw[k].name) = 0
                                     /\ k < Len(PopulousRaw)

(***************************************************************************)
(* The quiz view (src/app.py 567-723).  req holds the request while its    *)
(* loop runs: the rows selected as questions, the position of the loop,    *)
(* len(quiz_data) and the question the last iteration appended.  The rows  *)
(* are iterated by name: the random order of the selection only permutes   *)
(* quiz_data.  resp is the page of the last request served; a request that *)
(* is being served has none yet.                                           *)
(***************************************************************************)
QuizTypes == {"capitals", "flags", "general"}
Difficulties == {"easy", "medium", "hard"}

\* lines 574-579 with the medium tier given the size of the easy one
NumQuestions_medium_as_easy(difficulty) ==
    IF difficulty = "easy" THEN 10 ELSE IF difficulty = "medium" THEN 10 ELSE 20

\* lines 574-579
NumQuestions(difficulty) ==
    IF difficulty = "easy" THEN 10 ELSE IF difficulty = "medium" THEN 15 ELSE 20

\* the subsets of S that have k elements
RECURSIVE Subsets(_, _)
Subsets(S, k) ==
    IF k = 0 THEN {{}}
    ELSE IF Cardinality(S) < k THEN {}
    ELSE IF Cardinality(S) = k THEN {S}
    ELSE LET x == CHOOSE y \in S : TRUE
         IN  {T \cup {x} : T \in Subsets(S \ {x}, k - 1)} \cup Subsets(S \ {x}, k)

\* ORDER BY RANDOM() LIMIT k over a set: any subset of min(k, size) elements
Samples(S, k) == Subsets(S, Min(k, Cardinality(S)))

\* a set as a list, in some order
RECURSIVE SetToSeq(_)
SetToSeq(S) == IF S = {} THEN <<>>
               ELSE LET x == CHOOSE y \in S : TRUE IN <<x>> \o SetToSeq(S \ {x})

\* random.shuffle(q): every rearrangement of q
Shuffles(q) == {[i \in DOMAIN q |-> q[p[i]]] : p \in Permutations(DOMAIN q)}

\* int(x * num / den) of a float x, as a float
ScaleInt(x, num, den) == ((x * num) \div (den * Scale)) * Scale

Question(type, country, correct_answer, options) ==
    [type |-> type, country |-> country, correct_answer |-> correct_answer,
     options |-> options]

\* the iteration appended nothing (continue)
NoQuestion == Question("skipped", 0, None, <<>>)

\* capital != ? AND capital IS NOT NULL AND capital != ''  (NULL matches nothing)
WrongCapitalRows(correct) ==
    IF correct.t = "none" THEN {}
    ELSE {r \in db : NotEmpty(r.capital) /\ r.capital # correct}

\* SELECT DISTINCT region ... WHERE region != ? AND region IS NOT NULL AND region != ''
WrongRegions(correct) ==
    IF correct.t = "none" THEN {}
    ELSE {r.region : r \in {x \in db : NotEmpty(x.region) /\ x.region # correct}}

\* lines 592-607 with line 599 building the options from the wrong capitals
\* alone
CapitalsQuestion_decoys_only(question) ==
    { Question("capitals", question.name, question.capital, options) :
        options \in UNION { Shuffles([i \in 1..Cardinality(wrong) |->
                                         OrderByName(wrong)[i].capital])
                            : wrong \in Samples(WrongCapitalRows(question.capital), 3) } }

\* lines 592-607: the questions one iteration of the capitals quiz may append
CapitalsQuestion(question) ==
    { Question("capitals", question.name, question.capital, options) :
        options \in UNION { Shuffles(<<question.capital>>
                                     \o [i \in 1..Cardinality(wrong) |->
                                            OrderByName(wrong)[i].capital])
                            : wrong \in Samples(WrongCapitalRows(question.capital), 3) } }

\* lines 617-631: the flags quiz; an answer is a country name
FlagsQuestion(question) ==
    { Question("flags", question.name, question.name, options) :
        options \in UNION { Shuffles(<<question.name>> \o SetToSeq(wrong))
                            : wrong \in Samples({r.name : r \in db} \ {question.name}, 3) } }

\* lines 641-654: the kinds of question a row offers, with the answer of each
QTypes(question) ==
    {<<"capital", question.capital>>, <<"continent", question.region>>}
    \cup (IF Truthy(question.population)
          THEN {<<"population", Str(format_population(question.population))>>} ELSE {})
    \cup (IF Truthy(question.area)
          THEN {<<"area", Str(format_area(question.area))>>} ELSE {})

\* lines 678-702: the four options of a population or area question
NumericOptions(q_type, question) ==
    IF q_type = "population"
    THEN LET pop == extract_number(question.population).v
         IN  << Str(format_population(Num(pop))),
                Str(format_population(Num(ScaleInt(pop, 5, 10)))),
                Str(format_population(Num(ScaleInt(pop, 20, 10)))),
                Str(format_population(Num(ScaleInt(pop, 8, 10)))) >>
    ELSE LET area == extract_number(question.area).v
         IN  << Str(format_area(Num(area))),
                Str(format_area(Num(ScaleInt(area, 6, 10)))),
                Str(format_area(Num(ScaleInt(area, 15, 10)))),
                Str(format_area(Num(ScaleInt(area, 9, 10)))) >>

\* lines 640-716: the questions one iteration of the general quiz may append
GeneralQuestion(question) ==
    UNION {
      LET q_type == choice[1]
          correct_answer == choice[2]
      IN  IF q_type = "capital"
          THEN { Question(q_type, question.name, correct_answer, options) :
                   options \in UNION { Shuffles(<<correct_answer>>
                                         \o [i \in 1..Cardinality(wrong) |->
                                                OrderByName(wrong)[i].capital])
                                       : wrong \in Samples(WrongCapitalRows(correct_answer), 3) } }
          ELSE IF q_type = "continent"
          THEN { Question(q_type, question.name, correct_answer, options) :
                   options \in UNION { Shuffles(<<correct_answer>> \o SetToSeq(wrong))
                                       : wrong \in Samples(WrongRegions(correct_answer), 3) } }
          ELSE IF (q_type = "population" /\ Truthy(question.population))
                  \/ (q_type = "area" /\ Truthy(question.area))
          THEN \* shuffle, take options[0] as the answer, shuffle again
               UNION { { Question(q_type, question.name, first[1], options) :
                           options \in Shuffles(first) }
                       : first \in Shuffles(NumericOptions(q_type, question)) }
          ELSE {NoQuestion}
      : choice \in QTypes(question) }

QuestionsFor(quiz_type, question) ==
    IF quiz_type = "capitals" THEN CapitalsQuestion(question)
    ELSE IF quiz_type = "flags" THEN FlagsQuestion(question)
    ELSE GeneralQuestion(question)

\* GET /quiz?type=..&difficulty=..: the selection of the question rows
QuizStart(quiz_type, difficulty) ==
    LET num_questions == NumQuestions(difficulty)
        eligible == IF quiz_type = "capitals"
                    THEN {r \in db : NotEmpty(r.capital)} ELSE db
    IN  /\ req.op = "none"
        /\ \E selected \in Samples(eligible, num_questions) :
              req' = [op |-> "quiz", quiz_type |-> quiz_type, difficulty |-> difficulty,
                      num_questions |-> num_questions,
                      questions |-> OrderByName(selected),
                      pos |-> 0, quiz_len |-> 0, emitted |-> NoQuestion]
        /\ resp' = NoResp
        /\ UNCHANGED <<db, session, hist, arg>>

\* one iteration of the loop over the selected rows
QuizStep ==
    /\ req.op = "quiz"
    /\ req.pos < Len(req.questions)
    /\ \E q \in QuestionsFor(req.quiz_type, req.questions[req.pos + 1]) :
          req' = [req EXCEPT !.pos = @ + 1,
                             !.quiz_len = IF q = NoQuestion THEN @ ELSE @ + 1,
                             !.emitted = q]
    /\ UNCHANGED <<db, session, hist, arg, resp>>

\* the end of the loop: the page is rendered from quiz_data
QuizDone ==
    /\ req.op = "quiz"
    /\ req.pos = Len(req.questions)
    /\ resp' = [op |-> "quiz", quiz_type |-> req.quiz_type,
                difficulty |-> req.difficulty, quiz_len |-> req.quiz_len]
    /\ req' = NoReq
    /\ UNCHANGED <<db, session, hist, arg>>

InitQuiz ==
    /\ db \in DBs
    /\ session = NoSession
    /\ hist = NoHist
    /\ arg = None
    /\ req = NoReq
    /\ resp = NoResp

NextQuiz ==
    \/ \E quiz_type \in QuizTypes, difficulty \in Difficulties :
          QuizStart(quiz_type, difficulty)
    \/ QuizStep
    \/ QuizDone

SpecQuiz == InitQuiz /\ [][NextQuiz]_vars

(***************************************************************************)
(* The size of a quiz batch on tables larger than the batch                *)
(* (src/app.py 573-637, 718-723).                                          *)
(***************************************************************************)
\* rows a table holds beyond the batch size requested of it
MaxExtra == 1
\* rows of a table that have no capital
MaxBlank == 1
\* rows of a table a flags quiz is asked of
MaxFlagRows == 4

\* a row with no population and no area; no capital when blank
BatchRow(name, blank) ==
    Row(name, IF blank THEN None ELSE Str(<<"A">>), Str(<<"X">>), None, None)

\* n rows, the last b of them without a capital
BatchTable(n, b) == {BatchRow(name, name > n - b) : name \in 1..n}

BatchDBs ==
    {BatchTable(n, b) : n \in 0..(NumQuestions("hard") + MaxExtra), b \in 0..MaxBlank}

InitBatch ==
    /\ db \in BatchDBs
    /\ session = NoSession
    /\ hist = NoHist
    /\ arg = None
    /\ req = NoReq
    /\ resp = NoResp

NextBatch ==
    \/ \E quiz_type \in QuizTypes, difficulty \in Difficulties :
          /\ Cardinality(db) <= NumQuestions(difficulty) + MaxExtra
          /\ quiz_type = "flags" => Cardinality(db) <= MaxFlagRows
          /\ QuizStart(quiz_type, difficulty)
    \/ QuizStep
    \/ QuizDone

SpecBatch == InitBatch /\ [][NextBatch]_vars

\* the rows a quiz of the type rendered draws its questions from
EligibleRows ==
    IF resp.quiz_type = "capitals" THEN {r \in db : NotEmpty(r.capital)} ELSE db

\* C11 as stated: every quiz request produces a batch of N questions, N being
\* 10 for easy, 15 for medium and 20 for hard.
C11_BatchOfN ==
    resp.op = "quiz" =>
        /\ resp.difficulty = "easy" => resp.quiz_len = 10
        /\ resp.difficulty = "medium" => resp.quiz_len = 15
        /\ resp.difficulty = "hard" => resp.quiz_len = 20

\* C11 amended: every quiz request produces one batch of at most N questions,
\* N being 10 for easy, 15 for medium and 20 for hard: N questions when the
\* table holds at least N eligible rows, and one question for each eligible
\* row when it holds fewer.
C11_BatchUpToN ==
    resp.op = "quiz" =>
        LET N == IF resp.difficulty = "easy" THEN 10
                 ELSE IF resp.difficulty = "medium" THEN 15 ELSE 20
            rows == Cardinality(EligibleRows)
        IN  resp.quiz_len = IF rows >= N THEN N ELSE rows

\* C11 witness: a medium batch cut to 15 questions by the limit.
C11_Witness ==
    /\ resp.op = "quiz"
    /\ resp.difficulty = "medium"
    /\ Cardinality(EligibleRows) > 15
    /\ resp.quiz_len = 15

\* the iteration just run appended a question
Emitted == req.op = "quiz" /\ req.emitted.type # "skipped"

Occurrences(q, x) == Cardinality({i \in DOMAIN q : q[i] = x})

\* the row the emitted question is about
Subject == CHOOSE r \in db : r.name = req.emitted.country

\* C2: in no emitted question, of any quiz type, does the correct answer
\* appear among the three other options.
C2_AnswerNotAmongDecoys ==
    Emitted => Occurrences(req.emitted.options, req.emitted.correct_answer) <= 1

\* C3: every emitted question has exactly 3 decoys, 4 options in all (a
\* subject with fewer than 3 eligible decoys gets no question).
C3_ExactlyThreeDecoys ==
    Emitted => Len(req.emitted.options) = 4

\* C10: the subject of every emitted question is eligible for the question:
\* the field asked about (capital, region, population or area) is non-empty
\* on its row.
C10_SubjectEligible ==
    Emitted =>
        /\ req.emitted.type \in {"capitals", "capital"} => NotEmpty(Subject.capital)
        /\ req.emitted.type = "continent" => NotEmpty(Subject.region)
        /\ req.emitted.type = "population" => NotEmpty(Subject.population)
        /\ req.emitted.type = "area" => NotEmpty(Subject.area)

\* the emitted question asks for a population or an area
NumericEmitted == Emitted /\ req.emitted.type \in {"population", "area"}

\* C14: in every emitted population or area question the correct answer is
\* the formatted magnitude of the subject row's own population or area, and
\* the three other options are the values scaled from that magnitude.
C14_AnswerIsOwnMagnitude ==
    NumericEmitted =>
        LET synthesized == NumericOptions(req.emitted.type, Subject)
        IN  /\ req.emitted.correct_answer = synthesized[1]
            /\ req.emitted.options \in Shuffles(synthesized)

\* C15: in every emitted question, of every category, the correct answer is
\* one of the entries of the options list.
C15_AnswerAmongOptions ==
    Emitted => \E i \in DOMAIN req.emitted.options :
                  req.emitted.options[i] = req.emitted.correct_answer

\* C15 witness: a population or area question whose answer was taken from
\* the shuffled options and is not the first of the synthesized ones.
C15_Witness ==
    /\ NumericEmitted
    /\ Len(req.emitted.options) = 4
    /\ req.emitted.correct_answer # NumericOptions(req.emitted.type, Subject)[1]
====
